---------------------------- MODULE Spec2Model ----------------------------
(***************************************************************************)
(* Model of the candidate deduplication engine of vibe-coder-finder        *)
(* (src/utils/dedupe.py): the Candidate dataclass with its id derivation   *)
(* and merge policy, and CandidateDeduper with its seven signal indices,   *)
(* the index lookup, the two fuzzy name loops and add().                   *)
(*                                                                         *)
(* Python strings are sequences of one-character strings, so that          *)
(* str.lower, str.strip, the regular expressions and difflib's             *)
(* SequenceMatcher are computed character by character.  The Python value  *)
(* None is the one-element sequence NoneVal, which is no string.           *)
(***************************************************************************)
EXTENDS Integers, Sequences, FiniteSets, Bags, TLC

(***************************************************************************)
(* Characters and the string primitives the code uses.                     *)
(***************************************************************************)
UpperChars == <<"A", "B", "C", "D", "E", "F", "G", "H", "I", "J", "K", "L", "M",
                "N", "O", "P", "Q", "R", "S", "T", "U", "V", "W", "X", "Y", "Z">>

LowerChars == <<"a", "b", "c", "d", "e", "f", "g", "h", "i", "j", "k", "l", "m",
                "n", "o", "p", "q", "r", "s", "t", "u", "v", "w", "x", "y", "z">>

DigitChars == <<"0", "1", "2", "3", "4", "5", "6", "7", "8", "9">>

\* The characters of the model's strings in code-point order (str comparison).
CodePointOrder == <<"\t", "\n", " ", "-", ".", "/">> \o DigitChars \o <<":", "@">>
                  \o UpperChars \o <<"_">> \o LowerChars

Range(s) == {s[i] : i \in DOMAIN s}

NoneVal == <<"None">>

\* Python truthiness of an Optional[str]: None and "" are both false.
Truthy(s) == s # NoneVal /\ s # <<>>

LowerChar(c) ==
    IF \E i \in DOMAIN UpperChars : UpperChars[i] = c
    THEN LowerChars[CHOOSE i \in DOMAIN UpperChars : UpperChars[i] = c]
    ELSE c

\* str.lower()
Lower(s) == [i \in DOMAIN s |-> LowerChar(s[i])]

WhiteSpace == {" ", "\t", "\n"}

\* str.strip(chars): drop the leading and trailing characters that are in chars.
StripChars(s, chars) ==
    LET keep == {i \in DOMAIN s : s[i] \notin chars}
    IN  IF keep = {} THEN <<>>
        ELSE SubSeq(s, CHOOSE i \in keep : \A j \in keep : i <= j,
                       CHOOSE i \in keep : \A j \in keep : i >= j)

\* str.strip()
Strip(s) == StripChars(s, WhiteSpace)

Ord(c) == CHOOSE i \in DOMAIN CodePointOrder : CodePointOrder[i] = c

\* a > b for two Python strings (lexicographic by code point).
RECURSIVE StrGreater(_, _)
StrGreater(a, b) ==
    IF a = <<>> THEN FALSE
    ELSE IF b = <<>> THEN TRUE
    ELSE IF a[1] # b[1] THEN Ord(a[1]) > Ord(b[1])
    ELSE StrGreater(Tail(a), Tail(b))

\* s[i:] starts with p (i is a 1-based position).
StartsAt(s, i, p) ==
    /\ i + Len(p) - 1 <= Len(s)
    /\ SubSeq(s, i, i + Len(p) - 1) = p

\* First position at or after j whose character is not in class (Len(s)+1 if none):
\* the end of the greedy run  [class]+  that starts at j.
RunEnd(s, j, class) ==
    LET stops == {k \in j..Len(s) : s[k] \notin class}
    IN  IF stops = {} THEN Len(s) + 1
        ELSE CHOOSE k \in stops : \A m \in stops : k <= m

Min(S) == CHOOSE x \in S : \A y \in S : x <= y

Max(a, b) == IF a >= b THEN a ELSE b

(***************************************************************************)
(* The regular expressions.                                                *)
(***************************************************************************)
t_http == <<"h", "t", "t", "p", ":", "/", "/">>
t_https == <<"h", "t", "t", "p", "s", ":", "/", "/">>
t_www == <<"w", "w", "w", ".">>
t_linkedin_in == <<"l", "i", "n", "k", "e", "d", "i", "n", ".", "c", "o", "m", "/", "i", "n", "/">>

\* Every character but "/" : the class [^/].
NotSlash(s) == Range(s) \ {"/"}

\* https?://  at position i: the position after it, 0 when it is not there.
SchemeEnd(s, i) ==
    IF StartsAt(s, i, t_https) THEN i + Len(t_https)
    ELSE IF StartsAt(s, i, t_http) THEN i + Len(t_http)
    ELSE 0

\* (?:www\.)?  at position j, taken greedily: the position after it.
SkipWww(s, j) == IF j > 0 /\ StartsAt(s, j, t_www) THEN j + Len(t_www) ELSE j

\* [^/]+  at position j, taken greedily: the run, <<>> when no character matches.
HostRun(s, j) == IF j = 0 THEN <<>> ELSE SubSeq(s, j, RunEnd(s, j, NotSlash(s)) - 1)

\* Group 1 after a scheme ending before j: the run after www. when there is one,
\* else (backtracking, www. given back) the run from j, else no match.
PickGroup(j, after_www, from_scheme) ==
    IF j = 0 THEN NoneVal
    ELSE IF after_www # <<>> THEN after_www
    ELSE IF from_scheme # <<>> THEN from_scheme
    ELSE NoneVal

GroupAfterScheme(s, j) == PickGroup(j, HostRun(s, SkipWww(s, j)), HostRun(s, j))

\* A match of  https?://(?:www\.)?([^/]+)  that starts at position i: its group 1,
\* or NoneVal.
UrlGroupAt(s, i) == GroupAfterScheme(s, SchemeEnd(s, i))

LeftmostGroup(url, hits) == IF hits = {} THEN NoneVal ELSE UrlGroupAt(url, Min(hits))

\* re.search(r"https?://(?:www\.)?([^/]+)", url): group 1 of the leftmost match.
UrlSearch(url) == LeftmostGroup(url, {i \in DOMAIN url : UrlGroupAt(url, i) # NoneVal})

\* The class [a-zA-Z0-9_-].
HandleClass == Range(LowerChars) \cup Range(UpperChars) \cup Range(DigitChars) \cup {"_", "-"}

\* re.search(r"linkedin\.com/in/([a-zA-Z0-9_-]+)", url, re.I).group(1).lower(),
\* or NoneVal without a match.
HandleRun(url, j) == SubSeq(url, j, RunEnd(url, j, HandleClass) - 1)

LeftmostHandle(url, hits) ==
    IF hits = {} THEN NoneVal
    ELSE Lower(HandleRun(url, Min(hits) + Len(t_linkedin_in)))

\* The positions of url at which the pattern matches, lowered being url.lower().
LinkedinHits(url, lowered) ==
    {i \in DOMAIN url : /\ StartsAt(lowered, i, t_linkedin_in)
                        /\ HandleRun(url, i + Len(t_linkedin_in)) # <<>>}

LinkedinSearch(url) == LeftmostHandle(url, LinkedinHits(url, Lower(url)))

\* re.sub(r"[^a-z0-9]+", "-", s): every maximal run of other characters becomes one "-".
RECURSIVE SlugRuns(_)
SlugRuns(s) ==
    LET alnum == Range(LowerChars) \cup Range(DigitChars)
    IN  IF s = <<>> THEN <<>>
        ELSE IF s[1] \in alnum THEN <<s[1]>> \o SlugRuns(Tail(s))
        ELSE <<"-">> \o SlugRuns(SubSeq(s, RunEnd(s, 1, Range(s) \ alnum), Len(s)))

(***************************************************************************)
(* difflib.SequenceMatcher(None, a, b).ratio(), without junk (isjunk is    *)
(* None and the names are far below the 200 characters of autojunk).       *)
(* Positions are 1-based and the ranges alo..ahi, blo..bhi inclusive.      *)
(***************************************************************************)
RECURSIVE CommonRun(_, _, _, _, _, _)
CommonRun(a, b, i, j, ahi, bhi) ==
    IF i > ahi \/ j > bhi THEN 0
    ELSE IF a[i] # b[j] THEN 0
    ELSE 1 + CommonRun(a, b, i + 1, j + 1, ahi, bhi)

\* <<i, j, k>>: the longest block a[i..i+k-1] = b[j..j+k-1] in the ranges, the one
\* starting earliest in a and, among those, earliest in b; k = 0 without a match.
BlockAt(a, b, p, ahi, bhi) == <<p[1], p[2], CommonRun(a, b, p[1], p[2], ahi, bhi)>>

\* m is longer than n, or as long and not later in a, then in b.
BetterBlock(m, n) ==
    \/ m[3] > n[3]
    \/ /\ m[3] = n[3]
       /\ \/ m[1] < n[1]
          \/ m[1] = n[1] /\ m[2] <= n[2]

BestBlock(alo, blo, blocks) ==
    IF blocks = {} THEN <<alo, blo, 0>>
    ELSE CHOOSE m \in blocks : \A n \in blocks : BetterBlock(m, n)

find_longest_match(a, b, alo, ahi, blo, bhi) ==
    BestBlock(alo, blo,
              {BlockAt(a, b, p, ahi, bhi) :
                  p \in {q \in (alo..ahi) \X (blo..bhi) : a[q[1]] = b[q[2]]}})

\* Sum of the sizes of get_matching_blocks(): the longest match m, then the same on
\* the pieces to its left and to its right.
RECURSIVE MatchCount(_, _, _, _, _, _)
RECURSIVE MatchAround(_, _, _, _, _, _, _)
MatchAround(a, b, alo, ahi, blo, bhi, m) ==
    IF m[3] = 0 THEN 0
    ELSE m[3] + MatchCount(a, b, alo, m[1] - 1, blo, m[2] - 1)
              + MatchCount(a, b, m[1] + m[3], ahi, m[2] + m[3], bhi)

MatchCount(a, b, alo, ahi, blo, bhi) ==
    IF alo > ahi \/ blo > bhi THEN 0
    ELSE MatchAround(a, b, alo, ahi, blo, bhi,
                     find_longest_match(a, b, alo, ahi, blo, bhi))

\* ratio() as the fraction <<2*M, T>>; 1.0 when both strings are empty.
SequenceMatcherRatio(a, b) ==
    IF Len(a) + Len(b) = 0 THEN <<1, 1>>
    ELSE <<2 * MatchCount(a, b, 1, Len(a), 1, Len(b)), Len(a) + Len(b)>>

\* ratio > threshold, both fractions <<numerator, denominator>>.
RatioAbove(ratio, threshold) == ratio[1] * threshold[2] > threshold[1] * ratio[2]

(***************************************************************************)
(* Candidate (the dataclass).  A candidate is a record of the fields the   *)
(* deduplication code reads or writes, plus ref, the identity of the       *)
(* Python object (what id(self) and "is" see).  The lists demo_urls and    *)
(* source_urls are bags: a source may list a URL twice, and the order of   *)
(* list(set(...)) is that of Python's string hashes, which nothing in      *)
(* dedupe.py reads.  sources is a set; location_confidence is in           *)
(* hundredths.  scores, total_score and recruiter_pitch are left out:      *)
(* nothing in dedupe.py reads or writes them after construction.           *)
(***************************************************************************)
p_gh == <<"g", "h", ":">>
p_hn == <<"h", "n", ":">>
p_reddit == <<"r", "e", "d", "d", "i", "t", ":">>
p_web == <<"w", "e", "b", ":">>
p_email == <<"e", "m", "a", "i", "l", ":">>
p_name == <<"n", "a", "m", "e", ":">>
p_unknown == <<"u", "n", "k", "n", "o", "w", "n", ":">>

s_unknown == <<"u", "n", "k", "n", "o", "w", "n">>
s_UNKNOWN == <<"U", "N", "K", "N", "O", "W", "N">>

\* The dataclass defaults: Candidate().
Candidate ==
    [ref |-> 0, id |-> <<>>,
     name |-> NoneVal, github_username |-> NoneVal, hn_username |-> NoneVal,
     reddit_username |-> NoneVal, email |-> NoneVal, linkedin_url |-> NoneVal,
     twitter_handle |-> NoneVal, github_url |-> NoneVal, website |-> NoneVal,
     demo_urls |-> EmptyBag, source_urls |-> EmptyBag, bio |-> NoneVal,
     evidence_snippets |-> <<>>, location_raw |-> NoneVal,
     country |-> s_unknown, metro_bucket |-> s_UNKNOWN,
     location_confidence |-> 0, location_evidence_url |-> NoneVal,
     sources |-> {}, last_activity |-> NoneVal, stars_total |-> 0, repo_count |-> 0]

\* Candidate._extract_domain: the host as written, platforms included.
Candidate_extract_domain(url) == UrlSearch(url)

\* re.sub(r"[^a-z0-9]+", "-", name.lower()).strip("-")
NameSlug(name) == StripChars(SlugRuns(Lower(name)), {"-"})

\* Lines 63-72 with a fallback that leaves out id(self): "unknown:" for everyone.
IdBelowHandlesSameFallback(c, domain) ==
    IF Truthy(c.website) /\ Truthy(domain) THEN p_web \o Lower(domain)
    ELSE IF Truthy(c.email) THEN p_email \o Lower(c.email)
    ELSE IF Truthy(c.name) THEN p_name \o NameSlug(c.name)
    ELSE p_unknown

\* Candidate._generate_id.  id(self) is the object's identity, written in decimal.
\* Lines 63-72 of _generate_id, domain being self._extract_domain(self.website).
IdBelowHandles(c, domain) ==
    IF Truthy(c.website) /\ Truthy(domain) THEN p_web \o Lower(domain)
    ELSE IF Truthy(c.email) THEN p_email \o Lower(c.email)
    ELSE IF Truthy(c.name) THEN p_name \o NameSlug(c.name)
    ELSE p_unknown \o <<ToString(c.ref)>>

generate_id(c) ==
    IF Truthy(c.github_username) THEN p_gh \o Lower(c.github_username)
    ELSE IF Truthy(c.hn_username) THEN p_hn \o Lower(c.hn_username)
    ELSE IF Truthy(c.reddit_username) THEN p_reddit \o Lower(c.reddit_username)
    ELSE IdBelowHandles(c, Candidate_extract_domain(c.website))

\* self.id = self._generate_id()
WithGeneratedId(c) == [c EXCEPT !.id = generate_id(c)]

\* Candidate.__post_init__ on the object with identity ref built from the fields f.
post_init(f, ref) ==
    IF Truthy(f.id) THEN [f EXCEPT !.ref = ref]
    ELSE WithGeneratedId([f EXCEPT !.ref = ref])

\* The two lists joined without the set: "mine + theirs".
ListConcat(mine, theirs) == mine (+) theirs

\* list(set(mine + theirs)): every URL of either list, once.
ListOfSet(mine, theirs) == SetToBag(BagToSet(mine) \cup BagToSet(theirs))

\* The guard without "not self.X": "if other.X: self.X = other.X".
AdoptAlways(mine, theirs) == IF Truthy(theirs) THEN theirs ELSE mine

\* "if other.X and not self.X: self.X = other.X"
Adopt(mine, theirs) == IF Truthy(theirs) /\ ~Truthy(mine) THEN theirs ELSE mine

\* Line 101 with "not shorter" for "longer".
TakesBioNotShorter(mine, theirs) ==
    Truthy(theirs) /\ (~Truthy(mine) \/ Len(theirs) >= Len(mine))

\* Line 101: "other.bio and (not self.bio or len(other.bio) > len(self.bio))".
TakesBio(mine, theirs) ==
    Truthy(theirs) /\ (~Truthy(mine) \/ Len(theirs) > Len(mine))

\* Lines 121-122 without the comparison: every incoming timestamp is taken.
TakesActivityAlways(mine, theirs) == Truthy(theirs)

\* Lines 121-122: "other.last_activity and (not self.last_activity or
\* other.last_activity > self.last_activity)".
TakesActivity(mine, theirs) ==
    Truthy(theirs) /\ (~Truthy(mine) \/ StrGreater(theirs, mine))

\* The counter overwritten: "self.X = other.X".
TakeTheirs(mine, theirs) == theirs

\* "self.X = max(self.X, other.X)"
TakeMax(mine, theirs) == Max(mine, theirs)

\* Line 103 without "other.location_raw and".
TakesLocationByConfidence(self, other) ==
    other.location_confidence > self.location_confidence

\* The comparison of line 103 with "not below" for "above".
TakesLocationNotBelow(self, other) ==
    Truthy(other.location_raw) /\ other.location_confidence >= self.location_confidence

\* The location group is replaced as a unit (lines 103-108).
TakesLocation(self, other) ==
    Truthy(other.location_raw) /\ other.location_confidence > self.location_confidence

\* self.X = other.X for the five location fields when loc, else nothing.
Location(loc, mine, theirs) == IF loc THEN theirs ELSE mine

\* Lines 83-123 of merge_from: self with the fields of other merged in.
MergeFields(self, other, loc) ==
             [self EXCEPT
                !.name = Adopt(self.name, other.name),
                !.github_username = Adopt(self.github_username, other.github_username),
                !.hn_username = Adopt(self.hn_username, other.hn_username),
                !.reddit_username = Adopt(self.reddit_username, other.reddit_username),
                !.email = Adopt(self.email, other.email),
                !.linkedin_url = Adopt(self.linkedin_url, other.linkedin_url),
                !.twitter_handle = Adopt(self.twitter_handle, other.twitter_handle),
                !.github_url = Adopt(self.github_url, other.github_url),
                !.website = Adopt(self.website, other.website),
                !.bio = IF TakesBio(self.bio, other.bio) THEN other.bio ELSE self.bio,
                !.location_raw = Location(loc, self.location_raw, other.location_raw),
                !.country = Location(loc, self.country, other.country),
                !.metro_bucket = Location(loc, self.metro_bucket, other.metro_bucket),
                !.location_confidence = Location(loc, self.location_confidence,
                                                 other.location_confidence),
                !.location_evidence_url = Location(loc, self.location_evidence_url,
                                                   other.location_evidence_url),
                !.demo_urls = ListOfSet(self.demo_urls, other.demo_urls),
                !.source_urls = ListOfSet(self.source_urls, other.source_urls),
                !.evidence_snippets = self.evidence_snippets \o other.evidence_snippets,
                !.sources = self.sources \cup other.sources,
                !.stars_total = TakeMax(self.stars_total, other.stars_total),
                !.repo_count = TakeMax(self.repo_count, other.repo_count),
                !.last_activity =
                    IF TakesActivity(self.last_activity, other.last_activity)
                    THEN other.last_activity ELSE self.last_activity]

\* merge_from with "self.country = other.country" outside the "if" of line 103.
merge_from_country_always(self, other) ==
    WithGeneratedId([MergeFields(self, other, TakesLocation(self, other))
                        EXCEPT !.country = other.country])

\* Candidate.merge_from: self after merging other into it; the id is regenerated last.
merge_from(self, other) ==
    WithGeneratedId(MergeFields(self, other, TakesLocation(self, other)))

(***************************************************************************)
(* CandidateDeduper: the static helpers.                                   *)
(***************************************************************************)
d_github == <<"g", "i", "t", "h", "u", "b", ".", "c", "o", "m">>
d_twitter == <<"t", "w", "i", "t", "t", "e", "r", ".", "c", "o", "m">>
d_x == <<"x", ".", "c", "o", "m">>
d_linkedin == <<"l", "i", "n", "k", "e", "d", "i", "n", ".", "c", "o", "m">>
d_medium == <<"m", "e", "d", "i", "u", "m", ".", "c", "o", "m">>
d_substack == <<"s", "u", "b", "s", "t", "a", "c", "k", ".", "c", "o", "m">>
d_youtube == <<"y", "o", "u", "t", "u", "b", "e", ".", "c", "o", "m">>

skip_domains == {d_github, d_twitter, d_x, d_linkedin, d_medium, d_substack, d_youtube}

\* The default of CandidateDeduper(similarity_threshold=0.85), as a fraction.
similarity_threshold == <<85, 100>>

\* The fixed 0.9 of the cross-reference loop.
cross_reference_threshold == <<9, 10>>

\* Lines 335-338: a platform domain identifies nobody.
SkipPlatform(domain) == IF domain \in skip_domains THEN NoneVal ELSE domain

\* Lines 324-338, match being group 1 of the search or NoneVal.
DomainOfMatch(match) == IF match = NoneVal THEN NoneVal ELSE SkipPlatform(Lower(match))

\* CandidateDeduper._extract_domain: the lower-cased host, None for a platform.
extract_domain(url) == IF ~Truthy(url) THEN NoneVal ELSE DomainOfMatch(UrlSearch(url))

\* CandidateDeduper._normalize_linkedin_url
normalize_linkedin_url(url) == IF ~Truthy(url) THEN NoneVal ELSE LinkedinSearch(url)

\* CandidateDeduper._name_similarity
name_similarity(name1, name2) ==
    SequenceMatcherRatio(Strip(Lower(name1)), Strip(Lower(name2)))

SameFolded(x, y) == Truthy(x) /\ Truthy(y) /\ Lower(x) = Lower(y)

\* "d1 and d2 and d1 == d2"
SameValue(d1, d2) == Truthy(d1) /\ Truthy(d2) /\ d1 = d2

\* CandidateDeduper._has_common_identifier
has_common_identifier(c1, c2) ==
    \/ SameFolded(c1.github_username, c2.github_username)
    \/ SameFolded(c1.hn_username, c2.hn_username)
    \/ SameFolded(c1.twitter_handle, c2.twitter_handle)
    \/ SameFolded(c1.email, c2.email)
    \/ /\ Truthy(c1.linkedin_url) /\ Truthy(c2.linkedin_url)
       /\ SameValue(LinkedinSearch(c1.linkedin_url), LinkedinSearch(c2.linkedin_url))

\* {self._extract_domain(u) for u in urls if u}: None is a member when a URL has
\* no usable domain.
DemoDomains(urls) == {extract_domain(u) : u \in {v \in BagToSet(urls) : Truthy(v)}}

\* {h.lower() for h in [github_username, hn_username, twitter_handle] if h}
Handles(c) ==
    {Lower(h) : h \in {v \in {c.github_username, c.hn_username, c.twitter_handle} :
                          Truthy(v)}}

\* CandidateDeduper._likely_same_person
likely_same_person(c1, c2) ==
    \/ /\ Truthy(c1.website) /\ Truthy(c2.website)
       /\ SameValue(extract_domain(c1.website), extract_domain(c2.website))
    \/ /\ c1.demo_urls # EmptyBag /\ c2.demo_urls # EmptyBag
       /\ DemoDomains(c1.demo_urls) \cap DemoDomains(c2.demo_urls) # {}
    \/ Handles(c1) \cap Handles(c2) # {}

(***************************************************************************)
(* The state of one CandidateDeduper and of the run that feeds it.         *)
(***************************************************************************)
VARIABLES
    candidates,      \* self.candidates: the dict in insertion order, <<[key, ent]>>
    github_index,    \* self._github_index: key -> id
    hn_index,        \* self._hn_index
    reddit_index,    \* self._reddit_index
    twitter_index,   \* self._twitter_index
    linkedin_index,  \* self._linkedin_index
    domain_index,    \* self._domain_index
    email_index,     \* self._email_index
    next_ref,        \* identity of the next Candidate object a source constructs
    limit,           \* number of records the sources of this run yield
    calls,           \* number of add calls made so far
    last,            \* the last add call: its argument, lookup result and outcome
    prev,            \* the add call before the last one
    returned,        \* identities of the entities add has returned so far
    par,             \* two threads that call add at the same time
    lim,             \* the RateLimiter, the clock and the threads inside wait
    req              \* the rate_limited_request call in progress

vars == <<candidates, github_index, hn_index, reddit_index, twitter_index,
          linkedin_index, domain_index, email_index, next_ref, limit, calls,
          last, prev, returned, par, lim, req>>

indices == <<github_index, hn_index, reddit_index, twitter_index,
             linkedin_index, domain_index, email_index>>

\* Number of add calls of a run.
MaxAdds == 3

\* Number of add calls of a run over the platform records.
MaxPlatformAdds == 5

\* Number of add calls of a run over the records of one much-observed person.
MaxMergeAdds == 4

\* Number of add calls of a run over records that meet only in the fuzzy stage.
MaxFuzzyAdds == 3

\* Number of add calls of a run in which two threads add at the same time.
MaxParAdds == 4

(***************************************************************************)
(* The records the source connectors hand to add.                          *)
(***************************************************************************)
s_alexk == <<"a", "l", "e", "x", "k">>
s_AlexK == <<"A", "l", "e", "x", "K">>
s_akim == <<"a", "k", "i", "m">>
s_AlexKim == <<"A", "l", "e", "x", " ", "K", "i", "m">>
s_ZedMoe == <<"Z", "e", "d", " ", "M", "o", "e">>
s_AnnLee == <<"A", "n", "n", " ", "L", "e", "e">>
s_ann == <<"a", "n", "n">>
s_bob == <<"b", "o", "b">>
u_bare == <<"a", "l", "e", "x", "k", "i", "m", ".", "d", "e", "v">>
u_https == <<"h", "t", "t", "p", "s", ":", "/", "/", "a", "l", "e", "x", "k", "i", "m", ".", "d", "e", "v">>
u_www == <<"h", "t", "t", "p", "s", ":", "/", "/", "w", "w", "w", ".", "a", "l", "e", "x", "k", "i", "m", ".", "d", "e", "v", "/", "b", "l", "o", "g">>
u_medA == <<"h", "t", "t", "p", "s", ":", "/", "/", "m", "e", "d", "i", "u", "m", ".", "c", "o", "m", "/", "@", "a", "n", "n">>
u_medB == <<"h", "t", "t", "p", "s", ":", "/", "/", "w", "w", "w", ".", "M", "e", "d", "i", "u", "m", ".", "c", "o", "m", "/", "@", "b", "o", "b">>
e_upper == <<"A", "@", "K", ".", "i", "o">>
e_lower == <<"a", "@", "k", ".", "i", "o">>

rec_hn == [Candidate EXCEPT !.hn_username = s_akim, !.sources = {"hn"}]

rec_hn_gh == [Candidate EXCEPT !.hn_username = s_akim, !.github_username = s_AlexK,
                               !.sources = {"github"}, !.stars_total = 7]

rec_gh == [Candidate EXCEPT !.github_username = s_alexk, !.name = s_ZedMoe]

rec_spec1 == [Candidate EXCEPT !.github_username = s_alexk, !.name = s_AlexKim,
                               !.website = u_bare]

rec_spec2 == [Candidate EXCEPT !.name = s_AlexKim, !.website = u_bare]

rec_name == [Candidate EXCEPT !.name = s_AlexKim, !.stars_total = 5,
                              !.sources = {"devto"}]

rec_web == [Candidate EXCEPT !.website = u_www, !.sources = {"brave"}]

rec_email == [Candidate EXCEPT !.email = e_upper]

rec_email_web == [Candidate EXCEPT !.email = e_lower, !.website = u_https]

rec_medA == [Candidate EXCEPT !.github_username = s_ann, !.name = s_AnnLee,
                              !.website = u_medA]

rec_medB == [Candidate EXCEPT !.github_username = s_bob, !.name = s_AnnLee,
                              !.website = u_medB]

rec_tw == [Candidate EXCEPT !.twitter_handle = s_AlexK, !.name = s_AlexKim]

rec_bare == [Candidate EXCEPT !.website = u_bare]

rec_empty == Candidate

Records == {rec_hn, rec_hn_gh, rec_gh, rec_spec1, rec_spec2, rec_name, rec_web,
            rec_email, rec_email_web, rec_medA, rec_medB, rec_tw, rec_bare, rec_empty}

\* Records of people who all keep their site on one blogging platform.
s_annl == <<"a", "n", "n", "l">>
e_bob == <<"b", "@", "k", ".", "i", "o">>

plat_ann == [Candidate EXCEPT !.twitter_handle = s_annl, !.website = u_medA]

plat_ann_gh == [Candidate EXCEPT !.twitter_handle = s_annl, !.github_username = s_ann,
                                 !.website = u_medA]

plat_mail == [Candidate EXCEPT !.email = e_bob]

plat_mail_site == [Candidate EXCEPT !.email = e_bob, !.website = u_medB]

plat_bob == [Candidate EXCEPT !.github_username = s_bob, !.email = e_bob,
                              !.website = u_medB]

PlatformRecords == {plat_ann, plat_ann_gh, plat_mail, plat_mail_site, plat_bob}

\* Records of one person seen by many sources, with the data merge_from combines:
\* provenance, counters, URL lists and located observations of differing confidence.
s_zed == <<"z", "e", "d">>
l_sf == <<"S", "F">>
l_nyc == <<"N", "Y", "C">>
l_oslo == <<"O", "s", "l", "o">>
l_la == <<"L", "A">>
c_US == <<"U", "S">>
c_nonUS == <<"n", "o", "n", "-", "U", "S">>
m_SF == <<"S", "F", "_", "B", "A", "Y", "_", "A", "R", "E", "A">>
m_OTHER == <<"O", "T", "H", "E", "R", "_", "U", "S">>
m_NON == <<"N", "O", "N", "_", "U", "S">>
v_a == <<"u", "/", "a">>
v_b == <<"u", "/", "b">>
v_c == <<"u", "/", "c">>
url_a == <<"h", "t", "t", "p", "s", ":", "/", "/", "a", ".", "d", "e", "v">>
url_b == <<"h", "t", "t", "p", "s", ":", "/", "/", "b", ".", "d", "e", "v", "/", "x">>
post_a == <<"p", "/", "1">>
post_b == <<"p", "/", "2">>
n_alk == <<"A", "l", " ", "K">>
n_alexk == <<"A", "l", "e", "x", " ", "K">>
gu_a == <<"g", "h", "/", "a">>
gu_b == <<"g", "h", "/", "b">>
b_hi == <<"h", "i">>
b_yo == <<"y", "o">>
b_hey == <<"h", "e", "y", "!">>
t_jan == <<"2", "0", "2", "4", "-", "0", "1">>
t_jan15 == <<"2", "0", "2", "4", "-", "0", "1", "-", "1", "5">>
t_dec == <<"2", "0", "2", "3", "-", "1", "2">>
s_akr == <<"a", "k", "r">>
s_rk == <<"r", "k">>
s_alx == <<"a", "l", "x">>
s_AK == <<"A", "K">>
li_al == <<"l", "i", "n", "k", "e", "d", "i", "n", ".", "c", "o", "m", "/", "i", "n", "/", "a", "l">>
li_bo == <<"L", "i", "n", "k", "e", "d", "I", "n", ".", "c", "o", "m", "/", "i", "n", "/", "B", "o", "/">>

mrg_gh == [Candidate EXCEPT !.github_username = s_alexk, !.sources = {"github"},
                            !.name = n_alk, !.github_url = gu_a, !.bio = b_hi,
                            !.last_activity = t_jan,
                            !.stars_total = 50, !.repo_count = 3,
                            !.demo_urls = SetToBag({url_a}),
                            !.source_urls = SetToBag({post_a}),
                            !.location_raw = l_sf, !.country = c_US,
                            !.metro_bucket = m_SF, !.location_confidence = 70,
                            !.location_evidence_url = v_a]

mrg_hn == [Candidate EXCEPT !.github_username = s_AlexK, !.hn_username = s_akim,
                            !.reddit_username = s_akr, !.bio = b_hey,
                            !.last_activity = t_dec,
                            !.sources = {"hn"}, !.stars_total = 10, !.repo_count = 5,
                            !.demo_urls = SetToBag({url_a, url_b}),
                            !.source_urls = SetToBag({post_b}),
                            !.location_raw = l_nyc, !.country = c_US,
                            !.metro_bucket = m_OTHER, !.location_confidence = 70,
                            !.location_evidence_url = v_b]

mrg_hi == [Candidate EXCEPT !.github_username = s_alexk, !.stars_total = 80,
                            !.name = n_alexk, !.bio = b_yo, !.last_activity = t_jan15,
                            !.website = u_https, !.twitter_handle = s_alx,
                            !.linkedin_url = li_al,
                            !.demo_urls = SetToBag({url_b}) (+) SetToBag({url_b}),
                            !.location_raw = l_oslo, !.country = c_nonUS,
                            !.metro_bucket = m_NON, !.location_confidence = 90,
                            !.location_evidence_url = v_c]

mrg_lo == [Candidate EXCEPT !.github_username = s_alexk, !.sources = {"devto"},
                            !.website = u_www, !.twitter_handle = s_AK,
                            !.reddit_username = s_rk, !.github_url = gu_b,
                            !.linkedin_url = li_bo, !.email = e_bob,
                            !.repo_count = 1,
                            !.source_urls = SetToBag({post_a}) (+) SetToBag({post_a}),
                            !.location_raw = l_la, !.country = c_US,
                            !.metro_bucket = m_OTHER, !.location_confidence = 40]

\* A located guess without a raw location string.
mrg_noraw == [Candidate EXCEPT !.github_username = s_alexk, !.country = c_nonUS,
                               !.bio = <<>>, !.last_activity = <<>>,
                               !.metro_bucket = m_NON, !.location_confidence = 95]

mrg_zed == [Candidate EXCEPT !.github_username = s_zed, !.hn_username = s_akim]

mrg_gh_mail == [Candidate EXCEPT !.github_username = s_alexk, !.email = e_lower]

MergeRecords == {mrg_gh, mrg_hn, mrg_hi, mrg_lo, mrg_noraw, mrg_zed, mrg_gh_mail,
                 rec_hn, rec_email}

\* Records of people seen under one display name on several sites.
n_alng == <<"A", "l", " ", "N", "g">>
s_alng == <<"a", "l", "n", "g">>
s_ALNG == <<"A", "L", "N", "G">>
dm_gh_a == <<"h", "t", "t", "p", "s", ":", "/", "/", "g", "i", "t", "h", "u", "b", ".", "c", "o", "m", "/", "a">>
dm_gh_b == <<"h", "t", "t", "p", "s", ":", "/", "/", "g", "i", "t", "h", "u", "b", ".", "c", "o", "m", "/", "b">>
dm_bare == <<"a", "n", "n", ".", "d", "e", "v", "/", "x">>
li_Al == <<"L", "i", "n", "k", "e", "d", "I", "n", ".", "c", "o", "m", "/", "i", "n", "/", "A", "l", "/">>

FuzzyRecords ==
    {[Candidate EXCEPT !.name = n_alng, !.github_username = s_alng],
     [Candidate EXCEPT !.name = n_alng, !.twitter_handle = s_ALNG],
     [Candidate EXCEPT !.name = s_AlexKim, !.github_username = s_akim],
     [Candidate EXCEPT !.name = s_AlexKim, !.twitter_handle = s_akim],
     [Candidate EXCEPT !.name = s_AlexKim, !.hn_username = s_akim],
     [Candidate EXCEPT !.name = s_AnnLee, !.demo_urls = SetToBag({dm_gh_a})],
     [Candidate EXCEPT !.name = s_AnnLee, !.demo_urls = SetToBag({dm_gh_b, dm_bare})],
     [Candidate EXCEPT !.name = s_ZedMoe, !.github_username = s_zed,
                       !.linkedin_url = li_al],
     [Candidate EXCEPT !.name = s_ZedMoe, !.github_username = s_bob,
                       !.linkedin_url = li_Al]}

(***************************************************************************)
(* CandidateDeduper: the operations.                                       *)
(***************************************************************************)
Keys == {candidates[i].key : i \in DOMAIN candidates}

\* self.candidates[key], for a key of the dict.
EntityAt(key) == candidates[CHOOSE i \in DOMAIN candidates : candidates[i].key = key].ent

\* d[key] = ent: a present key keeps its position, a new key goes last.
DictSet(cands, key, ent) ==
    IF \E i \in DOMAIN cands : cands[i].key = key
    THEN [i \in DOMAIN cands |-> IF cands[i].key = key THEN [key |-> key, ent |-> ent]
                                 ELSE cands[i]]
    ELSE Append(cands, [key |-> key, ent |-> ent])

\* index[key] = id
IndexPut(index, key, id) ==
    [k \in DOMAIN index \cup {key} |-> IF k = key THEN id ELSE index[k]]

\* "for existing in self.candidates.values(): if <test>: return existing.id",
\* hits being the positions of the entities that pass the test.
FirstId(hits) == IF hits = {} THEN NoneVal ELSE candidates[Min(hits)].ent.id

\* "return first" when the step returned, else go on with the rest.
OrElse(first, rest) == IF first # NoneVal THEN first ELSE rest

\* "if candidate.X: key = ...; if key in index: return index[key]"
Probe(present, key, index) ==
    IF present /\ key \in DOMAIN index THEN index[key] ELSE NoneVal

\* The loop of lines 238-245.
NameAndIdentifier(c, existing) ==
    /\ Truthy(existing.name)
    /\ RatioAbove(name_similarity(c.name, existing.name), similarity_threshold)
    /\ has_common_identifier(c, existing)

\* The loop of lines 249-254.
CrossReference(c, existing) ==
    /\ Truthy(existing.name)
    /\ RatioAbove(name_similarity(c.name, existing.name), cross_reference_threshold)
    /\ likely_same_person(c, existing)

\* Lines 238-245.
NameLoop(c) ==
    IF Truthy(c.name)
    THEN FirstId({i \in DOMAIN candidates : NameAndIdentifier(c, candidates[i].ent)})
    ELSE NoneVal

\* Lines 249-254.
CrossReferenceLoop(c) ==
    IF Truthy(c.name) /\ Len(c.name) > 5
    THEN FirstId({i \in DOMAIN candidates : CrossReference(c, candidates[i].ent)})
    ELSE NoneVal

\* Lines 227-230, key being the normalized URL.
LinkedinProbe(c, key) == Probe(Truthy(c.linkedin_url) /\ Truthy(key), key, linkedin_index)

\* Lines 232-235, domain being the extracted domain.
DomainProbe(c, domain) == Probe(Truthy(c.website) /\ Truthy(domain), domain, domain_index)

\* Lines 237-256 of _find_existing: the two name loops.
FuzzyMatch(c) == OrElse(NameLoop(c), CrossReferenceLoop(c))

\* Lines 202-235 of _find_existing: the index probes in their order.
IndexLookup(c) ==
    OrElse(Probe(Truthy(c.github_username), Lower(c.github_username), github_index),
    OrElse(Probe(Truthy(c.hn_username), Lower(c.hn_username), hn_index),
    OrElse(Probe(Truthy(c.reddit_username), Lower(c.reddit_username), reddit_index),
    OrElse(Probe(Truthy(c.email), Lower(c.email), email_index),
    OrElse(Probe(Truthy(c.twitter_handle), Lower(c.twitter_handle), twitter_index),
    OrElse(LinkedinProbe(c, normalize_linkedin_url(c.linkedin_url)),
           DomainProbe(c, extract_domain(c.website))))))))

\* CandidateDeduper._find_existing: an entity id, or NoneVal.
find_existing(c) == OrElse(IndexLookup(c), FuzzyMatch(c))

\* One "if candidate.X: self._X_index[key] = candidate.id" of _update_indices.
Reindex(index, present, key, id) == IF present THEN IndexPut(index, key, id) ELSE index

\* "if candidate.X: key = f(candidate.X); if key: index[key] = candidate.id"
ReindexUrlRaw(index, url, key, id) == Reindex(index, Truthy(url), Lower(url), id)

ReindexUrl(index, url, key, id) == Reindex(index, Truthy(url) /\ Truthy(key), key, id)

\* CandidateDeduper._update_indices
update_indices(c) ==
    /\ github_index' = Reindex(github_index, Truthy(c.github_username),
                               Lower(c.github_username), c.id)
    /\ hn_index' = Reindex(hn_index, Truthy(c.hn_username), Lower(c.hn_username), c.id)
    /\ reddit_index' = Reindex(reddit_index, Truthy(c.reddit_username),
                               Lower(c.reddit_username), c.id)
    /\ twitter_index' = Reindex(twitter_index, Truthy(c.twitter_handle),
                                Lower(c.twitter_handle), c.id)
    /\ linkedin_index' = ReindexUrl(linkedin_index, c.linkedin_url,
                                    normalize_linkedin_url(c.linkedin_url), c.id)
    /\ email_index' = Reindex(email_index, Truthy(c.email), Lower(c.email), c.id)
    /\ domain_index' = ReindexUrl(domain_index, c.website, extract_domain(c.website), c.id)

\* The step of _find_existing that returned.
Via(c, found) ==
    IF IndexLookup(c) # NoneVal THEN "index"
    ELSE IF found # NoneVal THEN "fuzzy"
    ELSE "none"

\* What the caller of add sees: the call, its lookup and how it ended, with the
\* entity dict and the indices as they were when it was made.
Call(outcome, c, found, ret) ==
    [outcome |-> outcome, candidate |-> c, found |-> found, via |-> Via(c, found),
     ret |-> ret, before |-> candidates, index_before |-> indices]

\* Lines 190-193: existing is self.candidates[existing_id] after merge_from.
add_merge(c, existing_id, existing) ==
    /\ candidates' = DictSet(candidates, existing_id, existing)
    /\ update_indices(existing)
    /\ last' = Call("merged", c, existing_id, existing.ref)
    /\ returned' = returned \cup {existing.ref}

\* Lines 195-197 without line 196.
add_new_unindexed(c) ==
    /\ candidates' = DictSet(candidates, c.id, c)
    /\ UNCHANGED indices
    /\ last' = Call("new", c, NoneVal, c.ref)
    /\ returned' = returned \cup {c.ref}

\* Lines 195-197.
add_new(c) ==
    /\ candidates' = DictSet(candidates, c.id, c)
    /\ update_indices(c)
    /\ last' = Call("new", c, NoneVal, c.ref)
    /\ returned' = returned \cup {c.ref}

\* Line 190 with an id that is no key of the dict: KeyError, nothing is changed.
add_raise(c, existing_id) ==
    /\ UNCHANGED <<candidates, indices, returned>>
    /\ last' = Call("KeyError", c, existing_id, 0)

\* Lines 189-197, existing_id being the result of _find_existing.
add_found(c, existing_id) ==
    IF Truthy(existing_id)
    THEN IF existing_id \in Keys
         THEN add_merge(c, existing_id, merge_from(EntityAt(existing_id), c))
         ELSE add_raise(c, existing_id)
    ELSE add_new(c)

\* CandidateDeduper.add(candidate).  A KeyError leaves the deduper as it was; the
\* crawl loop of main.py logs it and goes on with the next source.
add_candidate(c) ==
    /\ calls < limit
    /\ calls' = calls + 1
    /\ next_ref' = next_ref + 1
    /\ prev' = last
    /\ UNCHANGED <<limit, par, lim, req>>
    /\ add_found(c, find_existing(c))

\* A source constructs a Candidate from the fields f and the crawl loop adds it.
add(f) == add_candidate(post_init(f, next_ref))

\* CandidateDeduper.get_all(), as the identities of the entities.
get_all == [i \in DOMAIN candidates |-> candidates[i].ent.ref]

\* CandidateDeduper.get_count()
get_count == Len(candidates)

\* No thread is inside add.
NoThreads ==
    [mutex |-> FALSE, lock |-> 0,
     th |-> [t \in 1..2 |-> [pc |-> "idle", c |-> Candidate, found |-> NoneVal,
                              missed |-> FALSE, early |-> FALSE]]]

(***************************************************************************)
(* src/utils/rate_limit.py.  Time is counted in half seconds.              *)
(***************************************************************************)
HalfSeconds(seconds) == 2 * seconds

\* RateLimitConfig and its defaults.
RateLimitConfig ==
    [requests_per_second |-> 1, max_retries |-> 3, initial_backoff |-> 1,
     max_backoff |-> 60]

DEFAULT_CONFIGS ==
    [github |-> [RateLimitConfig EXCEPT !.max_retries = 5],
     brave |-> RateLimitConfig,
     hn |-> [RateLimitConfig EXCEPT !.requests_per_second = 2],
     web |-> [RateLimitConfig EXCEPT !.requests_per_second = 2, !.max_retries = 2]]

\* self.configs.get(source, RateLimitConfig())
ConfigOf(source) ==
    IF source \in DOMAIN DEFAULT_CONFIGS THEN DEFAULT_CONFIGS[source]
    ELSE RateLimitConfig

\* min_interval = 1.0 / config.requests_per_second
min_interval(source) == HalfSeconds(1) \div ConfigOf(source).requests_per_second

\* Number of threads that call wait.
NumThreads == 2

\* Last clock value at which a call of wait or a request may start.
MaxClock == 2

Threads == 1..NumThreads

NotInWait == [pc |-> "idle", source |-> "", wake |-> 0]

\* RateLimiter() at a time when more than any min_interval has passed since the
\* epoch; stamps and returns are the last two writes of _last_request[source]
\* and the last two returns of wait(source), newest last.
RateLimiter ==
    [now |-> HalfSeconds(1), last_request |-> <<>>, lock |-> 0,
     th |-> [t \in Threads |-> NotInWait],
     stamps |-> <<>>, returns |-> <<>>]

NoRequest ==
    [pc |-> "idle", source |-> "", attempts |-> 0, status |-> 0, error |-> "",
     slept |-> 0]

\* The two newest entries of a history, t being the newest.
Latest(history, t) ==
    IF history = <<>> THEN <<t>> ELSE <<history[Len(history)], t>>

HistoryOf(histories, source) ==
    IF source \in DOMAIN histories THEN histories[source] ELSE <<>>

\* "self._last_request[source] = time.time()" at time t.
Stamped(l, source, t) ==
    [l EXCEPT !.last_request = (source :> t) @@ l.last_request,
              !.stamps = (source :> Latest(HistoryOf(l.stamps, source), t)) @@ l.stamps]

\* wait(source) returns at time t.
Returned(l, source, t) ==
    [l EXCEPT !.returns = (source :> Latest(HistoryOf(l.returns, source), t))
                              @@ l.returns]

\* Lines 43-49: the time at which time.sleep returns at the earliest, now being
\* time.time() and last being self._last_request.get(source, 0).
WakeTime(l, source) ==
    IF source \in DOMAIN l.last_request
       /\ l.now - l.last_request[source] < min_interval(source)
    THEN l.last_request[source] + min_interval(source)
    ELSE l.now

\* RateLimiter.wait(source) when no other thread runs: the clock after the sleep
\* is the stamp and the time of the return.
WaitAt(l, source, t) == Returned(Stamped([l EXCEPT !.now = t], source, t), source, t)

wait(l, source) == WaitAt(l, source, WakeTime(l, source))

\* The engine is not involved in requests and waits.
DeduperUnchanged ==
    UNCHANGED <<candidates, indices, next_ref, limit, calls, last, prev, returned, par>>

\* Time passes, up to the last start and while a thread is in time.sleep.
Tick ==
    /\ \/ lim.now <= MaxClock
       \/ \E t \in Threads : lim.th[t].pc = "sleep" /\ lim.th[t].wake > lim.now
    /\ lim' = [lim EXCEPT !.now = lim.now + 1]
    /\ UNCHANGED req
    /\ DeduperUnchanged

\* Thread t is at pc in wait(source) and its sleep ends at wake.
InWait(l, t, pc, source, wake) ==
    [l EXCEPT !.th[t] = [pc |-> pc, source |-> source, wake |-> wake]]

AlwaysUnlocked(holder) == TRUE

\* threading.Lock: acquire blocks while a thread holds the lock.
Unlocked(holder) == holder = 0

\* Lines 39-40: thread t calls wait(source).
Enter(t, source) ==
    /\ lim.th[t].pc = "idle"
    /\ lim.now <= MaxClock
    /\ lim' = InWait(lim, t, "acquire", source, 0)
    /\ UNCHANGED req
    /\ DeduperUnchanged

\* Lines 42-49: t gets the lock, reads the clock and the last request of its
\* source and goes to sleep if less than min_interval has passed.
Acquire(t) ==
    /\ lim.th[t].pc = "acquire"
    /\ Unlocked(lim.lock)
    /\ lim' = [InWait(lim, t, "sleep", lim.th[t].source,
                      WakeTime(lim, lim.th[t].source)) EXCEPT !.lock = t]
    /\ UNCHANGED req
    /\ DeduperUnchanged

\* Line 51, when time.sleep has returned.
Stamp(t) ==
    /\ lim.th[t].pc = "sleep"
    /\ lim.now >= lim.th[t].wake
    /\ lim' = InWait(Stamped(lim, lim.th[t].source, lim.now), t, "release",
                     lim.th[t].source, 0)
    /\ UNCHANGED req
    /\ DeduperUnchanged

\* The end of the with block.
Release(t) ==
    /\ lim.th[t].pc = "release"
    /\ lim' = [InWait(lim, t, "return", lim.th[t].source, 0) EXCEPT !.lock = 0]
    /\ UNCHANGED req
    /\ DeduperUnchanged

\* wait returns to its caller.
Return(t) ==
    /\ lim.th[t].pc = "return"
    /\ lim' = InWait(Returned(lim, lim.th[t].source, lim.now), t, "idle", "", 0)
    /\ UNCHANGED req
    /\ DeduperUnchanged

\* What requests.request does on one attempt: it raises, or it returns a
\* response with a status code and a Retry-After header.
h_one == <<"1">>
h_ninety == <<" ", "9", "0">>
h_date == <<"W", "e", "d">>

Responses ==
    [raises : {"Timeout", "ConnectionError"}, status : {0}, retry_after : {NoneVal}]
    \cup [raises : {""}, status : {200, 404, 500, 503}, retry_after : {NoneVal}]
    \cup [raises : {""}, status : {429}, retry_after : {NoneVal, h_one, h_ninety, h_date}]

DigitValue(c) == (CHOOSE i \in DOMAIN DigitChars : DigitChars[i] = c) - 1

RECURSIVE Digits(_)
Digits(s) ==
    IF s = <<>> THEN 0
    ELSE 10 * Digits(SubSeq(s, 1, Len(s) - 1)) + DigitValue(s[Len(s)])

\* int(text) for unsigned decimal text with surrounding blanks; -1 for ValueError.
IntOfText(text) ==
    IF text # <<>> /\ Range(text) \subseteq Range(DigitChars) THEN Digits(text) ELSE -1

\* int(response.headers.get("Retry-After", 60))
RetryAfter(header) == IF header = NoneVal THEN 60 ELSE IntOfText(Strip(header))

RECURSIVE Pow2(_)
Pow2(n) == IF n = 0 THEN 1 ELSE 2 * Pow2(n - 1)

\* wait_exponential(multiplier=initial_backoff, max=max_backoff) before the
\* attempt after attempt_number.
Backoff(config, attempt_number) ==
    Min({config.max_backoff, config.initial_backoff * Pow2(attempt_number - 1)})

\* The exception types of retry_if_exception_type, lines 104-107.
Retried == {"Timeout", "ConnectionError"}

\* The call ends: it returns the response or re-raises the error.
Ends(r, pc, status, error, slept) ==
    [r EXCEPT !.pc = pc, !.status = status, !.error = error, !.slept = slept]

\* What one run of _make_request under @retry leaves of the call r, n being the
\* number of this attempt: lines 101-119.
Attempted(r, n, config, resp) ==
    IF resp.raises # ""
    THEN IF resp.raises \in Retried /\ n < config.max_retries
         THEN [r EXCEPT !.attempts = n, !.slept = Backoff(config, n)]
         ELSE Ends([r EXCEPT !.attempts = n], "raised", 0, resp.raises, 0)
    ELSE IF resp.status = 429
         THEN IF RetryAfter(resp.retry_after) < 0
              THEN Ends([r EXCEPT !.attempts = n], "raised", 429, "ValueError", 0)
              ELSE IF "HTTPError" \in Retried /\ n < config.max_retries
                   THEN [r EXCEPT !.attempts = n,
                                  !.slept = Min({RetryAfter(resp.retry_after),
                                                 config.max_backoff})
                                            + Backoff(config, n)]
                   ELSE Ends([r EXCEPT !.attempts = n], "raised", 429, "HTTPError",
                             Min({RetryAfter(resp.retry_after), config.max_backoff}))
         ELSE IF resp.status >= 500
              THEN IF "HTTPError" \in Retried /\ n < config.max_retries
                   THEN [r EXCEPT !.attempts = n, !.slept = Backoff(config, n)]
                   ELSE Ends([r EXCEPT !.attempts = n], "raised", resp.status,
                             "HTTPError", 0)
              ELSE Ends([r EXCEPT !.attempts = n], "returned", resp.status, "", 0)

\* rate_limited_request(source, method, url) up to its first attempt: lines 91-99.
Request(source) ==
    /\ req.pc # "attempt"
    /\ lim.now <= MaxClock
    /\ lim' = wait(lim, source)
    /\ req' = [NoRequest EXCEPT !.pc = "attempt", !.source = source]
    /\ DeduperUnchanged

\* One attempt of the call in progress and the sleeps that follow it.
Attempt(resp) ==
    /\ req.pc = "attempt"
    /\ req' = Attempted(req, req.attempts + 1, ConfigOf(req.source), resp)
    /\ lim' = [lim EXCEPT !.now = lim.now + HalfSeconds(req'.slept)]
    /\ DeduperUnchanged

Sources == {"github", "web", "devto"}

NoCall ==
    [outcome |-> "init", candidate |-> Candidate, found |-> NoneVal, via |-> "none",
     ret |-> 0, before |-> <<>>,
     index_before |-> <<<<>>, <<>>, <<>>, <<>>, <<>>, <<>>, <<>>>>]

\* CandidateDeduper.__init__, before a run of n records.
Start(n) ==
    /\ candidates = <<>>
    /\ github_index = <<>>
    /\ hn_index = <<>>
    /\ reddit_index = <<>>
    /\ twitter_index = <<>>
    /\ linkedin_index = <<>>
    /\ domain_index = <<>>
    /\ email_index = <<>>
    /\ next_ref = 1
    /\ limit = n
    /\ calls = 0
    /\ last = NoCall
    /\ prev = NoCall
    /\ returned = {}
    /\ par = NoThreads
    /\ lim = RateLimiter
    /\ req = NoRequest

Init == Start(MaxAdds)

Next == \E f \in Records : add(f)

Spec == Init /\ [][Next]_vars

InitPlatform == Start(MaxPlatformAdds)

NextPlatform == \E f \in PlatformRecords : add(f)

\* Runs over the records of the blogging-platform users.
SpecPlatform == InitPlatform /\ [][NextPlatform]_vars

InitMerge == Start(MaxMergeAdds)

NextMerge == \E f \in MergeRecords : add(f)

\* Runs over the records of the much-observed person.
SpecMerge == InitMerge /\ [][NextMerge]_vars

InitFuzzy == Start(MaxFuzzyAdds)

NextFuzzy == \E f \in FuzzyRecords : add(f)

\* Runs over the records that share a display name.
SpecFuzzy == InitFuzzy /\ [][NextFuzzy]_vars

NextRequest ==
    \/ \E source \in Sources : Request(source)
    \/ \E resp \in Responses : Attempt(resp)
    \/ Tick

\* Records of one person from three sources, and of another.
ParRecords == {rec_hn, rec_hn_gh, rec_gh, rec_email}

\* A thread is about to call add(c); missed tells whether _find_existing(c)
\* finds nothing in the engine as it is.
Started(c) ==
    [pc |-> "lookup", c |-> c, found |-> NoneVal,
     missed |-> (find_existing(c) = NoneVal), early |-> FALSE]

\* Two threads call add at the same time, each add under one mutex or not.
Fork(f1, f2, mutex) ==
    /\ \A t \in {1, 2} : par.th[t].pc \in {"idle", "done"}
    /\ calls + 2 <= limit
    /\ par' = [mutex |-> mutex, lock |-> 0,
               th |-> <<Started(post_init(f1, next_ref)),
                        Started(post_init(f2, next_ref + 1))>>]
    /\ next_ref' = next_ref + 2
    /\ UNCHANGED <<candidates, indices, limit, calls, last, prev, returned, lim, req>>

\* The mutex around add is free, or there is none.
MayEnter(p) == p.mutex => p.lock = 0

\* Line 187: thread t looks its record up; early tells that the other thread
\* has not yet mutated the engine.
ThreadLookup(t) ==
    /\ par.th[t].pc = "lookup"
    /\ MayEnter(par)
    /\ par' = [par EXCEPT !.lock = IF par.mutex THEN t ELSE 0,
                          !.th[t].pc = "mutate",
                          !.th[t].found = find_existing(par.th[t].c),
                          !.th[t].early = (par.th[3 - t].pc # "done")]
    /\ UNCHANGED <<candidates, indices, next_ref, limit, calls, last, prev, returned,
                   lim, req>>

\* Lines 189-197: thread t merges or stores its record with the lookup result
\* it has.
ThreadMutate(t) ==
    /\ par.th[t].pc = "mutate"
    /\ calls' = calls + 1
    /\ prev' = last
    /\ par' = [par EXCEPT !.lock = 0, !.th[t].pc = "done"]
    /\ UNCHANGED <<next_ref, limit, lim, req>>
    /\ add_found(par.th[t].c, par.th[t].found)

InitPar == Start(MaxParAdds)

NextPar ==
    \/ \E f1 \in ParRecords : \E f2 \in ParRecords : \E mutex \in BOOLEAN :
           Fork(f1, f2, mutex)
    \/ \E t \in {1, 2} : ThreadLookup(t)
    \/ \E t \in {1, 2} : ThreadMutate(t)

\* Parallel ingestion by two threads.
SpecPar == InitPar /\ [][NextPar]_vars

NextLimiter ==
    \/ \E t \in Threads : \E source \in {"hn", "devto"} : Enter(t, source)
    \/ \E t \in Threads : Acquire(t)
    \/ \E t \in Threads : Stamp(t)
    \/ \E t \in Threads : Release(t)
    \/ \E t \in Threads : Return(t)
    \/ Tick

\* Threads that call wait of one RateLimiter in any interleaving.
SpecLimiter == Init /\ [][NextLimiter]_vars

\* Calls of rate_limited_request by the one thread of the crawl.
SpecRequest == Init /\ [][NextRequest]_vars

(***************************************************************************)
(* Properties of the engine.  "before" is the entity dict when the last    *)
(* add was called, "candidate" the record it was given.                    *)
(***************************************************************************)
\* The identities of the entities of a dict.
Refs(cands) == {cands[i].ent.ref : i \in DOMAIN cands}

Entities(cands) == {cands[i].ent : i \in DOMAIN cands}

\* The fields a source gave the record, without the identity and the generated id.
Fields(c) == [c EXCEPT !.ref = 0, !.id = <<>>]

\* The call returned an entity (it did not raise).
ReturnedEntity(call) == call.outcome \in {"new", "merged"}

\* The record carries a strong signal that the indices admit: a handle, an email,
\* a professional-network profile URL with an id, or a website with a domain that
\* is no platform's.
HasStrongSignal(c) ==
    \/ \E v \in {c.github_username, c.hn_username, c.reddit_username, c.email,
                 c.twitter_handle} : Truthy(v)
    \/ Truthy(normalize_linkedin_url(c.linkedin_url))
    \/ Truthy(extract_domain(c.website))

\* Two records share a handle, an email, a professional-network id, a website
\* domain or a demo-URL domain.
SharesSignal(c, e) ==
    \/ SameFolded(c.github_username, e.github_username)
    \/ SameFolded(c.hn_username, e.hn_username)
    \/ SameFolded(c.reddit_username, e.reddit_username)
    \/ SameFolded(c.twitter_handle, e.twitter_handle)
    \/ SameFolded(c.email, e.email)
    \/ SameValue(normalize_linkedin_url(c.linkedin_url),
                 normalize_linkedin_url(e.linkedin_url))
    \/ SameValue(extract_domain(c.website), extract_domain(e.website))
    \/ (DemoDomains(c.demo_urls) \cap DemoDomains(e.demo_urls)) \ {NoneVal} # {}
    \/ Handles(c) \cap Handles(e) # {}

\* The website is on one of the multi-tenant platforms.
OnPlatform(url) ==
    /\ Truthy(url)
    /\ UrlSearch(url) # NoneVal
    /\ Lower(UrlSearch(url)) \in skip_domains

\* C1: add is total: every add call returns an entity that is tracked, and none
\* raises, also when the lookup hits an entity whose id an earlier merge changed.
C1_AddIsTotal ==
    last.outcome # "init" =>
        /\ ReturnedEntity(last)
        /\ last.ret \in Refs(candidates)

\* C2: idempotence of strong-signal merge: after add(r) has returned for a record r
\* with a strong signal, add of a record with the same fields returns a tracked
\* entity and get_count() is what it was after the first call.
C2_StrongSignalIdempotent ==
    (/\ ReturnedEntity(prev)
     /\ Fields(last.candidate) = Fields(prev.candidate)
     /\ HasStrongSignal(last.candidate))
    => /\ ReturnedEntity(last)
       /\ last.ret \in Refs(candidates)
       /\ get_count = Len(last.before)

\* C3: strong signal priority: when a tracked entity e holds the code-host handle
\* of the record (case-insensitively), add merges the record into e and returns e
\* without creating an entity, whatever the names are.
C3_HandlePriority ==
    \A e \in Entities(last.before) :
        SameFolded(e.github_username, last.candidate.github_username)
        => /\ last.outcome = "merged"
           /\ last.ret = e.ref
           /\ get_count = Len(last.before)

\* C4: entities are never deleted: every entity add has returned is in get_all()
\* in every later state.
C4_NeverDeleted == returned \subseteq Range(get_all)

\* C5: entity-id uniqueness: every tracked entity has a non-empty id and no two
\* tracked entities have the same id.
C5_UniqueIds ==
    \A i, j \in DOMAIN candidates :
        /\ candidates[i].ent.id # <<>>
        /\ i # j => candidates[i].ent.id # candidates[j].ent.id

\* C6: a total miss creates exactly one entity: get_count() grows by one, the
\* record is tracked with its fields as given, and every entity tracked before is
\* still tracked.
C6_MissCreatesOne ==
    last.outcome = "new"
    => /\ get_count = Len(last.before) + 1
       /\ last.candidate \in Entities(candidates)
       /\ Refs(last.before) \subseteq Refs(candidates)

\* C7: the end-to-end scenario: a new engine is given {handle alexk, name Alex Kim,
\* website alexkim.dev} and then {name Alex Kim, website alexkim.dev}; afterwards
\* get_count() is 1 and the one entity has handle alexk and website alexkim.dev.
C7_EndToEnd ==
    (/\ calls = 2
     /\ Fields(prev.candidate) = rec_spec1
     /\ Fields(last.candidate) = rec_spec2)
    => /\ get_count = 1
       /\ candidates[1].ent.github_username = s_alexk
       /\ candidates[1].ent.website = u_bare

\* C8: no cross-platform signal leakage: no platform domain is a key of the
\* website-domain index, and a record is never merged into an entity that has a
\* different code-host handle and a website on the same platform unless the two
\* share a signal.
C8_NoPlatformLeak ==
    /\ DOMAIN domain_index \cap skip_domains = {}
    /\ \A e \in Entities(last.before) :
           (/\ last.outcome = "merged"
            /\ last.ret = e.ref
            /\ Truthy(e.github_username)
            /\ Truthy(last.candidate.github_username)
            /\ Lower(e.github_username) # Lower(last.candidate.github_username)
            /\ OnPlatform(e.website)
            /\ OnPlatform(last.candidate.website)
            /\ Lower(UrlSearch(e.website)) = Lower(UrlSearch(last.candidate.website)))
           => SharesSignal(last.candidate, e)

\* C9: fuzzy match requires corroboration: when add has no index hit and the record
\* shares no signal with a tracked entity e, then after the add e is tracked
\* unchanged and the record is tracked as another entity.
C9_FuzzyNeedsCorroboration ==
    \A e \in Entities(last.before) :
        (/\ last.outcome # "init"
         /\ last.via # "index"
         /\ ~SharesSignal(last.candidate, e))
        => /\ e \in Entities(candidates)
           /\ last.candidate.ref \in Refs(candidates) \ {e.ref}

\* C10: each add changes at most one entity: a merge leaves get_count() as it was,
\* a miss adds one entity, and every entry of the dict other than the returned
\* entity's is as it was before the call.
C10_OneEntityPerAdd ==
    /\ last.outcome = "merged" => get_count = Len(last.before)
    /\ last.outcome = "new" => get_count = Len(last.before) + 1
    /\ \A i \in DOMAIN last.before :
           last.before[i].ent.ref # last.ret
           => \E j \in DOMAIN candidates : candidates[j] = last.before[i]

\* C11: union semantics: a merge of record r into entity e leaves e.sources equal
\* to the union of the old e.sources and r.sources, and e.demo_urls and
\* e.source_urls holding every URL of the old and of the incoming list exactly
\* once; the three sets of a tracked entity only grow in any add.
C11_UnionSemantics ==
    \A old \in Entities(last.before) : \A new \in Entities(candidates) :
        new.ref = old.ref =>
            /\ old.sources \subseteq new.sources
            /\ BagToSet(old.demo_urls) \subseteq BagToSet(new.demo_urls)
            /\ BagToSet(old.source_urls) \subseteq BagToSet(new.source_urls)
            /\ (last.outcome = "merged" /\ last.ret = new.ref) =>
                   /\ new.sources = old.sources \cup last.candidate.sources
                   /\ new.demo_urls =
                          SetToBag(BagToSet(old.demo_urls)
                                   \cup BagToSet(last.candidate.demo_urls))
                   /\ new.source_urls =
                          SetToBag(BagToSet(old.source_urls)
                                   \cup BagToSet(last.candidate.source_urls))

\* C11 happens: a merge whose record brings a new source tag and a new demo URL
\* and repeats a demo URL the entity already has.
C11_Witness ==
    \E old \in Entities(last.before) :
        /\ last.outcome = "merged"
        /\ last.ret = old.ref
        /\ ~(last.candidate.sources \subseteq old.sources)
        /\ ~(BagToSet(last.candidate.demo_urls) \subseteq BagToSet(old.demo_urls))
        /\ BagToSet(last.candidate.demo_urls) \cap BagToSet(old.demo_urls) # {}

\* C12: max-combine semantics: after a merge stars_total and repo_count of the
\* entity are the maximum of its previous value and the incoming one, and in any
\* add neither counter of a tracked entity decreases.
C12_MaxCombine ==
    \A old \in Entities(last.before) : \A new \in Entities(candidates) :
        new.ref = old.ref =>
            /\ new.stars_total >= old.stars_total
            /\ new.repo_count >= old.repo_count
            /\ (last.outcome = "merged" /\ last.ret = new.ref) =>
                   /\ new.stars_total >= last.candidate.stars_total
                   /\ new.stars_total \in {old.stars_total, last.candidate.stars_total}
                   /\ new.repo_count >= last.candidate.repo_count
                   /\ new.repo_count \in {old.repo_count, last.candidate.repo_count}

\* C12 happens: a merge whose record has fewer stars and more repositories than
\* the entity.
C12_Witness ==
    \E old \in Entities(last.before) :
        /\ last.outcome = "merged"
        /\ last.ret = old.ref
        /\ last.candidate.stars_total < old.stars_total
        /\ last.candidate.repo_count > old.repo_count

\* The five location fields of a candidate.
LocationGroup(c) ==
    <<c.location_raw, c.country, c.metro_bucket, c.location_confidence,
      c.location_evidence_url>>

\* C13: location confidence monotonicity: the location fields of a tracked entity
\* change only in an add that merges into it a record whose location_confidence is
\* strictly greater than the stored one; otherwise all five stay as they are, and
\* location_confidence never decreases.
C13_LocationMonotone ==
    \A old \in Entities(last.before) : \A new \in Entities(candidates) :
        new.ref = old.ref =>
            /\ new.location_confidence >= old.location_confidence
            /\ LocationGroup(new) # LocationGroup(old) =>
                   /\ last.outcome = "merged"
                   /\ last.ret = new.ref
                   /\ last.candidate.location_confidence > old.location_confidence

\* C13 happens: a located entity is merged with a record that has another
\* location of equal confidence.
C13_Witness ==
    \E old \in Entities(last.before) :
        /\ last.outcome = "merged"
        /\ last.ret = old.ref
        /\ Truthy(old.location_raw)
        /\ Truthy(last.candidate.location_raw)
        /\ last.candidate.location_confidence = old.location_confidence
        /\ last.candidate.location_raw # old.location_raw

\* C14: location group atomicity: the five location fields of every tracked entity
\* are those of one single observation, and an add either replaces all five by the
\* five of the incoming record or changes none of them.
C14_LocationAtomic ==
    /\ \A e \in Entities(candidates) :
           \E f \in Records \cup PlatformRecords \cup MergeRecords :
               LocationGroup(e) = LocationGroup(f)
    /\ \A new \in Entities(candidates) :
           /\ (last.outcome = "new" /\ last.ret = new.ref) =>
                  LocationGroup(new) = LocationGroup(last.candidate)
           /\ \A old \in Entities(last.before) :
                  new.ref = old.ref =>
                      LocationGroup(new) \in {LocationGroup(old),
                                              LocationGroup(last.candidate)}

\* C14 happens: a merge has replaced a location by one that differs in every one
\* of the five fields.
C14_Witness ==
    \E old \in Entities(last.before) : \E new \in Entities(candidates) :
        /\ last.outcome = "merged"
        /\ last.ret = old.ref
        /\ new.ref = old.ref
        /\ Truthy(old.location_raw)
        /\ \A k \in 1..5 : LocationGroup(new)[k] # LocationGroup(old)[k]

\* The id in the stated order: code-host handle, forum handle, secondary-forum
\* handle, email, website domain, name; the fallback is left as it is.
IdInStatedOrder(e) ==
    IF Truthy(e.github_username) THEN p_gh \o Lower(e.github_username)
    ELSE IF Truthy(e.hn_username) THEN p_hn \o Lower(e.hn_username)
    ELSE IF Truthy(e.reddit_username) THEN p_reddit \o Lower(e.reddit_username)
    ELSE IF Truthy(e.email) THEN p_email \o Lower(e.email)
    ELSE IF Truthy(e.website) /\ Truthy(Candidate_extract_domain(e.website))
         THEN p_web \o Lower(Candidate_extract_domain(e.website))
    ELSE IF Truthy(e.name) THEN p_name \o NameSlug(e.name)
    ELSE e.id

\* C15: entity-id derivation order: at creation and after every merge the id of an
\* entity is derived from its first non-empty field in the order code-host handle,
\* forum handle, secondary-forum handle, email, website domain, name; an entity
\* with an email and a website and no handle has an email-based id.
C15_IdDerivationOrder ==
    \A e \in Entities(candidates) : e.id = IdInStatedOrder(e)

\* The id an index holds for a value, folded to lower case; NoneVal without one.
Hit(index, value) ==
    IF Truthy(value) /\ Lower(value) \in DOMAIN index THEN index[Lower(value)]
    ELSE NoneVal

\* The id the domain index holds for a domain.
DomainHit(index, domain) ==
    IF Truthy(domain) /\ domain \in DOMAIN index THEN index[domain] ELSE NoneVal

\* What the five stated signal types of record c hit in the indices ix, in the
\* stated order: code-host handle, forum handle, secondary-forum handle, email,
\* website domain.
StatedHits(c, ix) ==
    <<Hit(ix[1], c.github_username), Hit(ix[2], c.hn_username),
      Hit(ix[3], c.reddit_username), Hit(ix[7], c.email),
      DomainHit(ix[6], extract_domain(c.website))>>

\* The hits name at least two different ids.
HitsDiffer(hits) == Cardinality(Range(hits) \ {NoneVal}) >= 2

FirstHit(hits) == hits[Min({k \in DOMAIN hits : hits[k] # NoneVal})]

\* The record hits nothing through its microblog handle or its profile URL.
NoOtherHit(c, ix) ==
    /\ Hit(ix[4], c.twitter_handle) = NoneVal
    /\ DomainHit(ix[5], normalize_linkedin_url(c.linkedin_url)) = NoneVal

\* C16: lookup priority: when the strong signals of the record hit different
\* tracked entities in different indices, add merges the record into the entity
\* reached through the signal type that comes first in the order code-host handle,
\* forum handle, secondary-forum handle, email, website domain.
C16_LookupPriority ==
    \A e \in Entities(last.before) :
        (/\ last.outcome # "init"
         /\ NoOtherHit(last.candidate, last.index_before)
         /\ HitsDiffer(StatedHits(last.candidate, last.index_before))
         /\ e.id = FirstHit(StatedHits(last.candidate, last.index_before)))
        => /\ last.outcome = "merged"
           /\ last.ret = e.ref

\* C17: get_all order: get_all() lists the tracked entities in the order in which
\* they were created (identities are handed out in creation order), an add never
\* changes the relative order of two entities tracked before it, and an entity the
\* add created is the last one.
C17_GetAllOrder ==
    /\ \A a, b \in DOMAIN get_all : a < b => get_all[a] < get_all[b]
    /\ \A i, j \in DOMAIN last.before : \A a, b \in DOMAIN get_all :
           (/\ i < j
            /\ get_all[a] = last.before[i].ent.ref
            /\ get_all[b] = last.before[j].ent.ref)
           => a < b
    /\ last.outcome = "new" => get_all[Len(get_all)] = last.ret

\* The record has no identity field and no name.
NoIdentity(c) ==
    \A v \in {c.name, c.github_username, c.hn_username, c.reddit_username, c.email,
               c.linkedin_url, c.twitter_handle, c.website} : ~Truthy(v)

\* The key is a fallback identifier: "unknown:" and the identity of an object.
IsFallback(key) ==
    /\ Len(key) > Len(p_unknown)
    /\ SubSeq(key, 1, Len(p_unknown)) = p_unknown

\* C18: malformed input degenerates gracefully: add accepts a record with no
\* identity field and no name without error and tracks it as an entity of its own
\* under a fallback identifier, every entity tracked before stays as it was, and an
\* entity that came from such a record is never merged into or replaced.
C18_MalformedAccepted ==
    /\ (last.outcome # "init" /\ NoIdentity(last.candidate)) =>
           /\ last.outcome = "new"
           /\ get_count = Len(last.before) + 1
           /\ \A i \in DOMAIN last.before : candidates[i] = last.before[i]
           /\ candidates[get_count].ent = last.candidate
           /\ candidates[get_count].key = last.candidate.id
           /\ IsFallback(candidates[get_count].key)
    /\ \A e \in Entities(last.before) : NoIdentity(e) => e \in Entities(candidates)

\* C18 happens: a second record without identity has been added and the first is
\* still tracked.
C18_Witness ==
    /\ last.outcome = "new"
    /\ NoIdentity(last.candidate)
    /\ \E e \in Entities(last.before) : NoIdentity(e) /\ e \in Entities(candidates)

\* Entity e holds the signal value that is key k of index number n of indices.
HoldsSignal(n, e, k) ==
    CASE n = 1 -> Truthy(e.github_username) /\ Lower(e.github_username) = k
      [] n = 2 -> Truthy(e.hn_username) /\ Lower(e.hn_username) = k
      [] n = 3 -> Truthy(e.reddit_username) /\ Lower(e.reddit_username) = k
      [] n = 4 -> Truthy(e.twitter_handle) /\ Lower(e.twitter_handle) = k
      [] n = 5 -> normalize_linkedin_url(e.linkedin_url) = k
      [] n = 6 -> extract_domain(e.website) = k
      [] n = 7 -> Truthy(e.email) /\ Lower(e.email) = k

\* C19: index referential integrity: every id that is a value of one of the seven
\* signal indices is a key of the entity dict, and the entity under that key has
\* this id as its current id and holds the indexed signal, also after a merge that
\* changed the id of the matched entity.
C19_IndexIntegrity ==
    \A n \in 1..7 : \A k \in DOMAIN indices[n] :
        /\ indices[n][k] \in Keys
        /\ EntityAt(indices[n][k]).id = indices[n][k]
        /\ HoldsSignal(n, EntityAt(indices[n][k]), k)

\* A signal value that is present maps to the id in its index.
PointsAt(index, present, key, id) ==
    present => key \in DOMAIN index /\ index[key] = id

\* C20: all participating signals point at the merged entity: right after add(r)
\* has returned entity e, every strong signal value of r (each handle, the email,
\* the professional-network id, a website domain that is no platform's) maps in
\* its index to e, also a value the merge did not adopt because e already had
\* another value in that field.
C20_AllSignalsPoint ==
    \A e \in Entities(candidates) :
        (ReturnedEntity(last) /\ e.ref = last.ret) =>
            /\ PointsAt(github_index, Truthy(last.candidate.github_username),
                        Lower(last.candidate.github_username), e.id)
            /\ PointsAt(hn_index, Truthy(last.candidate.hn_username),
                        Lower(last.candidate.hn_username), e.id)
            /\ PointsAt(reddit_index, Truthy(last.candidate.reddit_username),
                        Lower(last.candidate.reddit_username), e.id)
            /\ PointsAt(twitter_index, Truthy(last.candidate.twitter_handle),
                        Lower(last.candidate.twitter_handle), e.id)
            /\ PointsAt(email_index, Truthy(last.candidate.email),
                        Lower(last.candidate.email), e.id)
            /\ PointsAt(linkedin_index,
                        Truthy(normalize_linkedin_url(last.candidate.linkedin_url)),
                        normalize_linkedin_url(last.candidate.linkedin_url), e.id)
            /\ PointsAt(domain_index,
                        Truthy(extract_domain(last.candidate.website)),
                        extract_domain(last.candidate.website), e.id)

\* The nine single-valued identity and link fields of a candidate.
SingleValued(c) ==
    <<c.name, c.github_username, c.hn_username, c.reddit_username, c.email,
      c.linkedin_url, c.twitter_handle, c.github_url, c.website>>

\* C21: single-valued fields are write-once: a merge adopts the incoming value of
\* name, a handle, email, a profile or code-host URL or website only when the
\* entity's value is empty, and a non-empty value of a tracked entity is never
\* changed by an add.
C21_WriteOnce ==
    \A old \in Entities(last.before) : \A new \in Entities(candidates) :
        new.ref = old.ref =>
            \A k \in 1..9 :
                /\ Truthy(SingleValued(old)[k]) =>
                       SingleValued(new)[k] = SingleValued(old)[k]
                /\ SingleValued(new)[k] # SingleValued(old)[k] =>
                       /\ last.outcome = "merged"
                       /\ last.ret = new.ref
                       /\ SingleValued(new)[k] = SingleValued(last.candidate)[k]
                /\ (/\ last.outcome = "merged"
                    /\ last.ret = new.ref
                    /\ ~Truthy(SingleValued(old)[k])
                    /\ Truthy(SingleValued(last.candidate)[k])) =>
                       SingleValued(new)[k] = SingleValued(last.candidate)[k]

\* C21 happens: a merge whose record has another value for a field the entity has
\* and a value for a field the entity lacks.
C21_Witness ==
    \E old \in Entities(last.before) :
        /\ last.outcome = "merged"
        /\ last.ret = old.ref
        /\ \E k \in 1..9 :
               /\ Truthy(SingleValued(old)[k])
               /\ Truthy(SingleValued(last.candidate)[k])
               /\ SingleValued(old)[k] # SingleValued(last.candidate)[k]
        /\ \E k \in 1..9 :
               /\ ~Truthy(SingleValued(old)[k])
               /\ Truthy(SingleValued(last.candidate)[k])

\* len(bio), an absent bio counting as empty.
BioLen(bio) == IF Truthy(bio) THEN Len(bio) ELSE 0

\* C22: bio rule: after a merge the entity's bio is the incoming bio exactly when
\* the incoming bio is non-empty and the existing bio is empty or strictly
\* shorter; otherwise it is the existing bio; the length of the bio of a tracked
\* entity never decreases.
C22_BioRule ==
    \A old \in Entities(last.before) : \A new \in Entities(candidates) :
        new.ref = old.ref =>
            /\ BioLen(new.bio) >= BioLen(old.bio)
            /\ (last.outcome = "merged" /\ last.ret = new.ref) =>
                   IF /\ Truthy(last.candidate.bio)
                      /\ BioLen(last.candidate.bio) > BioLen(old.bio)
                   THEN new.bio = last.candidate.bio
                   ELSE new.bio = old.bio

\* C22 happens: a merge whose record has another bio of the same length.
C22_Witness ==
    \E old \in Entities(last.before) :
        /\ last.outcome = "merged"
        /\ last.ret = old.ref
        /\ Truthy(old.bio)
        /\ Truthy(last.candidate.bio)
        /\ last.candidate.bio # old.bio
        /\ Len(last.candidate.bio) = Len(old.bio)

\* C23: last-activity rule: after a merge last_activity is the lexicographically
\* greater of the previous and the incoming value, an empty value being smaller
\* than every timestamp; last_activity of a tracked entity never moves to a
\* smaller value and never returns to empty.
C23_LastActivity ==
    \A old \in Entities(last.before) : \A new \in Entities(candidates) :
        new.ref = old.ref =>
            /\ Truthy(old.last_activity) =>
                   /\ Truthy(new.last_activity)
                   /\ ~StrGreater(old.last_activity, new.last_activity)
            /\ (last.outcome = "merged" /\ last.ret = new.ref) =>
                   /\ (Truthy(last.candidate.last_activity)
                         /\ Truthy(old.last_activity)) =>
                          new.last_activity =
                              IF StrGreater(last.candidate.last_activity,
                                            old.last_activity)
                              THEN last.candidate.last_activity
                              ELSE old.last_activity
                   /\ (Truthy(last.candidate.last_activity)
                         /\ ~Truthy(old.last_activity)) =>
                          new.last_activity = last.candidate.last_activity
                   /\ ~Truthy(last.candidate.last_activity) =>
                          new.last_activity = old.last_activity

\* C23 happens: a merge whose record has an earlier timestamp than the entity.
C23_Witness ==
    \E old \in Entities(last.before) :
        /\ last.outcome = "merged"
        /\ last.ret = old.ref
        /\ Truthy(old.last_activity)
        /\ Truthy(last.candidate.last_activity)
        /\ StrGreater(old.last_activity, last.candidate.last_activity)

\* C30: location replacement needs a raw location string: a merge replaces the
\* location group of the entity by the record's exactly when the record's
\* location_raw is non-empty and its location_confidence is strictly greater than
\* the stored one; a record of higher confidence without location_raw changes
\* none of the five fields.
C30_LocationNeedsRaw ==
    \A old \in Entities(last.before) : \A new \in Entities(candidates) :
        (last.outcome = "merged" /\ last.ret = old.ref /\ new.ref = old.ref) =>
            IF /\ Truthy(last.candidate.location_raw)
               /\ last.candidate.location_confidence > old.location_confidence
            THEN LocationGroup(new) = LocationGroup(last.candidate)
            ELSE LocationGroup(new) = LocationGroup(old)

\* C30 happens: a located entity is merged with a record of higher confidence that
\* has no raw location and another country.
C30_Witness ==
    \E old \in Entities(last.before) :
        /\ last.outcome = "merged"
        /\ last.ret = old.ref
        /\ Truthy(old.location_raw)
        /\ ~Truthy(last.candidate.location_raw)
        /\ last.candidate.location_confidence > old.location_confidence
        /\ last.candidate.country # old.country

\* The demo URLs of two records have an extracted domain in common.
SharesDemoDomain(c, e) ==
    (DemoDomains(c.demo_urls) \cap DemoDomains(e.demo_urls)) \ {NoneVal} # {}

\* The corroborating signals of the secondary check as the design states them.
SharesCrossSignal(c, e) ==
    \/ SameValue(extract_domain(c.website), extract_domain(e.website))
    \/ SharesDemoDomain(c, e)
    \/ Handles(c) \cap Handles(e) # {}

\* C24: secondary cross-reference match: when add(r) has no index hit, r has a
\* non-empty name of any length whose similarity to the name of a tracked entity e
\* is above 0.9, and r and e share a website domain, a demo-URL domain or a
\* case-folded handle across the three handle fields, then r is merged into e.
C24_CrossReferenceMerges ==
    \A e \in Entities(last.before) :
        (/\ last.outcome # "init"
         /\ last.via # "index"
         /\ Truthy(last.candidate.name)
         /\ Truthy(e.name)
         /\ RatioAbove(name_similarity(last.candidate.name, e.name),
                       cross_reference_threshold)
         /\ SharesCrossSignal(last.candidate, e))
        => (last.outcome = "merged" /\ last.ret = e.ref)

\* C25: demo-URL corroboration needs a real shared domain: a record that is
\* merged into a tracked entity e without an index hit, without a shared
\* same-type identifier, website domain, handle or demo URL, has a demo URL whose
\* extracted non-platform domain is that of a demo URL of e.
C25_DemoNeedsSharedDomain ==
    \A e \in Entities(last.before) :
        (/\ last.outcome = "merged"
         /\ last.ret = e.ref
         /\ last.via = "fuzzy"
         /\ BagToSet(last.candidate.demo_urls) \cap BagToSet(e.demo_urls) = {}
         /\ ~has_common_identifier(last.candidate, e)
         /\ ~SameValue(extract_domain(last.candidate.website), extract_domain(e.website))
         /\ Handles(last.candidate) \cap Handles(e) = {})
        => SharesDemoDomain(last.candidate, e)

\* The index of a same-type identifier that record c shares with entity e has
\* the shared value as a key, ix being the seven indices.
SharedIsIndexed(c, e, ix) ==
    /\ SameFolded(c.github_username, e.github_username) =>
           Lower(c.github_username) \in DOMAIN ix[1]
    /\ SameFolded(c.hn_username, e.hn_username) =>
           Lower(c.hn_username) \in DOMAIN ix[2]
    /\ SameFolded(c.twitter_handle, e.twitter_handle) =>
           Lower(c.twitter_handle) \in DOMAIN ix[4]
    /\ SameFolded(c.email, e.email) => Lower(c.email) \in DOMAIN ix[7]
    /\ (/\ Truthy(c.linkedin_url) /\ Truthy(e.linkedin_url)
        /\ SameValue(LinkedinSearch(c.linkedin_url), LinkedinSearch(e.linkedin_url))) =>
           normalize_linkedin_url(c.linkedin_url) \in DOMAIN ix[5]

\* C29: the name-plus-common-identifier branch never decides an add: whenever the
\* record of an add shares a same-type identifier (code-host, forum or social
\* handle, email or professional-network id, case-insensitively) with an entity
\* tracked when the call is made, the corresponding index has that value as a key
\* and the index probes return before the fuzzy stage.
C29_NameBranchNeverDecides ==
    \A e \in Entities(last.before) :
        has_common_identifier(last.candidate, e) =>
            /\ last.via = "index"
            /\ SharedIsIndexed(last.candidate, e, last.index_before)

\* C29 happens: a record with the name of a tracked entity and its
\* professional-network id in another spelling, under another code-host handle,
\* was merged by an index probe.
C29_Witness ==
    \E e \in Entities(last.before) :
        /\ last.outcome = "merged"
        /\ last.via = "index"
        /\ last.ret = e.ref
        /\ NameAndIdentifier(last.candidate, e)
        /\ ~SameFolded(last.candidate.github_username, e.github_username)
        /\ last.candidate.linkedin_url # e.linkedin_url

\* C27: retry on rate-limit responses: a call of rate_limited_request that ends
\* with the error of a 429 or 5xx response, of a timeout or of a connection
\* failure has made config.max_retries attempts, and before the error of a 429
\* response it has slept min(Retry-After, max_backoff).
C27_RetriesRateLimited ==
    (req.pc = "raised" /\ req.error \in {"HTTPError", "Timeout", "ConnectionError"})
        => /\ req.attempts = ConfigOf(req.source).max_retries
           /\ req.status = 429 => req.slept > 0

\* A thread has written _last_request[source] and has not yet returned.
Returning(source) ==
    \E t \in Threads :
        lim.th[t].source = source /\ lim.th[t].pc \in {"release", "return"}

\* C28 as stated: thread-safe per-source rate limiting: in any interleaving two
\* successive returns from wait for one source are at least 1/requests_per_second
\* apart, and _last_request[source] holds the time of the most recent return for
\* that source.
C28_ReturnsSeparated ==
    \A source \in DOMAIN lim.returns :
        /\ Len(lim.returns[source]) = 2 =>
               lim.returns[source][2] - lim.returns[source][1] >= min_interval(source)
        /\ ~Returning(source) =>
               lim.last_request[source] = lim.returns[source][Len(lim.returns[source])]

\* C28 as amended: in any interleaving two successive writes of
\* _last_request[source], one per call of wait and made under the lock before the
\* call returns, are at least 1/requests_per_second apart, _last_request[source]
\* holds the time of the latest write, and only the holder of the lock is between
\* its acquire and its release.
C28_StampsSeparated ==
    /\ \A source \in DOMAIN lim.stamps :
           /\ Len(lim.stamps[source]) = 2 =>
                  lim.stamps[source][2] - lim.stamps[source][1] >= min_interval(source)
           /\ lim.last_request[source] = lim.stamps[source][Len(lim.stamps[source])]
    /\ \A t \in Threads : lim.th[t].pc \in {"sleep", "release"} => lim.lock = t

\* C28 happens: a thread has slept in wait until min_interval after the write of
\* another call for its source and has written its time, while another thread
\* waits for the lock.
C28_Witness ==
    \E t \in Threads : \E u \in Threads \ {t} :
        /\ lim.th[t].pc = "release"
        /\ lim.th[u].pc = "acquire"
        /\ Len(lim.stamps[lim.th[t].source]) = 2
        /\ lim.stamps[lim.th[t].source][2] - lim.stamps[lim.th[t].source][1]
               = min_interval(lim.th[t].source)

\* Two records have a key of a signal index in common.
SharesKey(c, d) ==
    \/ SameFolded(c.github_username, d.github_username)
    \/ SameFolded(c.hn_username, d.hn_username)
    \/ SameFolded(c.reddit_username, d.reddit_username)
    \/ SameFolded(c.email, d.email)
    \/ SameFolded(c.twitter_handle, d.twitter_handle)
    \/ SameValue(normalize_linkedin_url(c.linkedin_url),
                 normalize_linkedin_url(d.linkedin_url))
    \/ SameValue(extract_domain(c.website), extract_domain(d.website))

\* Both threads have finished adds of records that share a strong signal which
\* no tracked entity had when the calls were made.
BothAdded ==
    /\ par.th[1].pc = "done" /\ par.th[2].pc = "done"
    /\ par.th[1].missed /\ par.th[2].missed
    /\ SharesKey(par.th[1].c, par.th[2].c)

\* Both lookups ran before either thread mutated the engine.
Raced == par.th[1].early /\ par.th[2].early

\* C26: atomicity of add under parallel ingestion: of two concurrent adds of
\* records sharing a strong signal that is unclaimed, both take the new-entity
\* path when both lookups run before either mutation, which happens only
\* without a mutex; when each add is one atomic step under a mutex, and in every
\* execution whose second lookup follows the first mutation, the second record
\* is merged into the entity created by the first.
C26_AtomicAdd ==
    BothAdded =>
        /\ par.mutex => ~Raced
        /\ Raced => (prev.outcome = "new" /\ last.outcome = "new")
        /\ ~Raced => /\ prev.outcome = "new"
                     /\ last.outcome = "merged"
                     /\ last.ret = prev.ret

\* C26 happens: without a mutex both lookups missed and the two records of one
\* person are tracked as two entities.
C26_Witness ==
    /\ BothAdded
    /\ ~par.mutex
    /\ Raced
    /\ prev.outcome = "new" /\ last.outcome = "new"
    /\ {prev.ret, last.ret} \subseteq Refs(candidates)
    /\ prev.ret # last.ret

=============================================================================
